---------------------------- MODULE Spec2Model ----------------------------
(***************************************************************************)
(* better_bitset::BitSet<N> (src/include/better_bitset.hpp).               *)
(*                                                                         *)
(* An unsigned machine word is modelled as the set of the positions of its *)
(* 1 bits (position 0 is the least significant bit), so that 64-bit words  *)
(* are represented exactly: | is \cup, & is \cap, ~ is the complement in   *)
(* the word's width, << and >> move the positions and drop those that      *)
(* leave the word.  m_storage is a function from the chunk index           *)
(* 0 .. NUM_CHUNKS-1 to such words.                                        *)
(***************************************************************************)
EXTENDS Integers, FiniteSets, Sequences, TLC

(***************************************************************************)
(* Bounds of the model.  The widths N that are instantiated, and which bit *)
(* positions below N the single-bit operations and the raw constructor     *)
(* argument may touch: the first MaxOff positions of every chunk and the   *)
(* last MaxTop positions below N.  Every other bit of a word still exists  *)
(* (flip() and set() write all of them).                                   *)
(***************************************************************************)
MaxOff == 1
MaxTop == 2

Widths == {1, 5, 8, 12, 16, 32, 33, 64, 70, 128, 129}

(***************************************************************************)
(* Word arithmetic                                                         *)
(***************************************************************************)
\* the width of unsigned long long (the "ull" literals) and of a chunk index step
ULL_BITS == 64

\* Inner_t: the width in bits of the storage word type chosen for N
Inner_t(n) == IF n > 32 THEN 64 ELSE IF n > 16 THEN 32 ELSE IF n > 8 THEN 16 ELSE 8

\* sizeof(Inner_t) * 8
Inner_bits(n) == Inner_t(n)

\* std::numeric_limits<Inner_t>::max()
Inner_max(n) == 0 .. (Inner_t(n) - 1)

\* ~x on unsigned long long
Not64(x) == (0 .. (ULL_BITS - 1)) \ x

\* x << s on unsigned long long, 0 <= s < 64
Shl64(x, s) == {b + s : b \in {c \in x : c + s < ULL_BITS}}

\* x >> s
Shr(x, s) == {b - s : b \in {c \in x : c >= s}}

\* static_cast<Inner_t>(x), and the implicit conversion of an assignment to Inner_t
ToInner(x, n) == x \cap Inner_max(n)

\* the literal 1ull
One == {0}

MinOf(S) == CHOOSE m \in S : \A x \in S : m <= x

MaxOf(S) == CHOOSE m \in S : \A x \in S : x <= m

\* std::countr_zero<Inner_t>
countr_zero(x, n) == IF x = {} THEN Inner_bits(n) ELSE MinOf(x)

\* std::countr_one<Inner_t>
countr_one(x, n) == IF Inner_max(n) \ x = {} THEN Inner_bits(n) ELSE MinOf(Inner_max(n) \ x)

\* std::popcount
popcount(x) == Cardinality(x)

\* std::bit_width
bit_width(x) == IF x = {} THEN 0 ELSE MaxOf(x) + 1

RECURSIVE Pow2(_)
Pow2(k) == IF k = 0 THEN 1 ELSE 2 * Pow2(k - 1)

RECURSIVE ValueOf(_)
ValueOf(x) == IF x = {} THEN 0 ELSE Pow2(MaxOf(x)) + ValueOf(x \ {MaxOf(x)})

\* k <= x as unsigned numbers, for a small number k (0 <= k <= 64) and a word x.
\* A word with a bit at position 7 or above is at least 128 > k; below that its
\* value is computed.
LeqWord(k, x) == IF \E b \in x : b >= 7 THEN TRUE ELSE k <= ValueOf(x)

(***************************************************************************)
(* Compile-time constants of BitSet<N>                                     *)
(***************************************************************************)
LAST_MASK(n) == Not64(Shl64(Not64(One), (n - 1) % ULL_BITS))

NUM_CHUNKS(n) == (n + 63) \div ULL_BITS

Chunks(n) == 0 .. (NUM_CHUNKS(n) - 1)

(***************************************************************************)
(* State                                                                   *)
(***************************************************************************)
VARIABLES
    N,                \* the template parameter
    debug,            \* whether _DEBUG is defined (BITSET_ASSERT is assert)
    aborted,          \* an assertion failed in a debug build
    m_storage,        \* the storage words
    start_canonical,  \* history: the constructor's argument had no bit at or above N
    last,             \* history: the last operation and its arguments
    prev_op,          \* history: the name of the operation before the last
    before            \* history: m_storage before the last operation

vars == <<N, debug, aborted, m_storage, start_canonical, last, prev_op, before>>

(***************************************************************************)
(* Constructors.  The stored value is the argument; BITSET_ASSERT          *)
(* evaluates its expression in both builds and aborts only under _DEBUG.   *)
(***************************************************************************)
\* BitSet() : m_storage()
BitSet_default(n) == [i \in Chunks(n) |-> {}]

\* the expression asserted by BitSet(Storage_t), N > 64
BitSet_array_assert(storage, n) ==
    LeqWord(bit_width(storage[NUM_CHUNKS(n) - 1]), LAST_MASK(n))

\* the expression asserted by BitSet(Inner_t), N <= 64
BitSet_word_assert(storage, n) == bit_width(storage[0]) <= n

\* the assertion of the constructor that N selects (the requires clauses)
BitSet_assert(storage, n) ==
    IF n > 64 THEN BitSet_array_assert(storage, n) ELSE BitSet_word_assert(storage, n)

(***************************************************************************)
(* Accessors, as functions of the storage s of a BitSet<n>                 *)
(***************************************************************************)
\* the template argument COUNT_FUNC, named by f, applied to a chunk
COUNT_FUNC(f, chunk, n) ==
    IF f = "countr_zero" THEN countr_zero(chunk, n) ELSE countr_one(chunk, n)

\* the loop of first_func_impl from chunk i on, with the accumulator pos
RECURSIVE first_func_loop(_, _, _, _, _)
first_func_loop(f, s, n, i, pos) ==
    IF i = NUM_CHUNKS(n) THEN n
    ELSE LET chunk_pos == COUNT_FUNC(f, s[i], n)
         IN  IF chunk_pos # Inner_bits(n)
             THEN pos + chunk_pos
             ELSE first_func_loop(f, s, n, i + 1, pos + chunk_pos)

\* faulty variant (for sensitivity checks): the loop returns the position within the chunk, the accumulator dropped
RECURSIVE first_func_loop_noacc(_, _, _, _)
first_func_loop_noacc(f, s, n, i) ==
    IF i = NUM_CHUNKS(n) THEN n
    ELSE LET chunk_pos == COUNT_FUNC(f, s[i], n)
         IN  IF chunk_pos # Inner_bits(n)
             THEN chunk_pos
             ELSE first_func_loop_noacc(f, s, n, i + 1)

first_func_impl_noacc(f, s, n) == first_func_loop_noacc(f, s, n, 0)

first_func_impl(f, s, n) == first_func_loop(f, s, n, 0, 0)

\* faulty variant (for sensitivity checks): the last word compared with the word type's maximum
all_max(s, n) == \A i \in Chunks(n) : s[i] = Inner_max(n)

all(s, n) ==
    /\ \A i \in Chunks(n) : i < NUM_CHUNKS(n) - 1 => s[i] = Inner_max(n)
    /\ s[NUM_CHUNKS(n) - 1] = LAST_MASK(n)

any(s, n) == \E i \in Chunks(n) : s[i] # {}

none(s, n) == \A i \in Chunks(n) : s[i] = {}

\* std::accumulate from chunk i on; the accumulator is an int (the initial value
\* 0), which the sums of at most N bits do not overflow
RECURSIVE accumulate(_, _, _, _)
accumulate(s, n, i, acc) ==
    IF i = NUM_CHUNKS(n) THEN acc ELSE accumulate(s, n, i + 1, acc + popcount(s[i]))

\* faulty variant (for sensitivity checks): the last chunk left out of the sum
count_skip_last(s, n) == accumulate(s, n, 1, 0)

count(s, n) == accumulate(s, n, 0, 0)

first_one(s, n) == first_func_impl("countr_zero", s, n)

\* faulty variant (for sensitivity checks): the scan of first_one
first_zero_countr_zero(s, n) == first_func_impl("countr_zero", s, n)

first_zero(s, n) == first_func_impl("countr_one", s, n)

\* operator[]
operator_index(s, n, pos) ==
    IF n > 64
    THEN LET chunk == pos \div 64
             shift == pos % 64
         IN  Shr(s[chunk], shift) # {}
    ELSE (Shr(s[0], pos) \cap One) # {}

test(s, n, pos) == operator_index(s, n, pos)

\* the characters are appended for i = N, N-1, ..., 1, each test(i - 1)
to_string(s, n) == [k \in 1 .. n |-> IF test(s, n, n - k) THEN "1" ELSE "0"]

(***************************************************************************)
(* Modifiers, as functions from the storage s of a BitSet<n> to the new    *)
(* storage                                                                 *)
(***************************************************************************)
set(s, n) ==
    [i \in Chunks(n) |->
        IF i < NUM_CHUNKS(n) - 1 THEN Inner_max(n) ELSE ToInner(LAST_MASK(n), n)]

\* faulty variant (for sensitivity checks): the last word inverted without LAST_MASK
flip_nomask(s, n) == [i \in Chunks(n) |-> Inner_max(n) \ s[i]]

\* faulty variant (for sensitivity checks): only the last word inverted
flip_last_only(s, n) ==
    [i \in Chunks(n) |->
        IF i < NUM_CHUNKS(n) - 1
        THEN s[i]
        ELSE ToInner(Not64(s[i]) \cap LAST_MASK(n), n)]

flip(s, n) ==
    [i \in Chunks(n) |->
        IF i < NUM_CHUNKS(n) - 1
        THEN Inner_max(n) \ s[i]
        ELSE ToInner(Not64(s[i]) \cap LAST_MASK(n), n)]

reset(s, n) == [i \in Chunks(n) |-> {}]

\* reset(size_t pos)
reset_pos(s, n, pos) ==
    IF n > 64
    THEN LET chunk == pos \div 64
             shift == pos % 64
         IN  IF chunk = NUM_CHUNKS(n) - 1
             THEN [s EXCEPT ![chunk] = @ \cap (Not64(Shl64(One, shift)) \cap LAST_MASK(n))]
             ELSE [s EXCEPT ![chunk] = @ \cap Not64(Shl64(One, shift))]
    ELSE [s EXCEPT ![0] = ToInner(@ \cap (Not64(Shl64(One, pos)) \cap LAST_MASK(n)), n)]

\* set(size_t pos, bool value)
set_pos(s, n, pos, value) ==
    IF value = FALSE THEN reset_pos(s, n, pos)
    ELSE IF n > 64
    THEN LET chunk == pos \div 64
             shift == pos % 64
         IN  [s EXCEPT ![chunk] = @ \cup Shl64(One, shift)]
    ELSE [s EXCEPT ![0] = @ \cup ToInner(Shl64(One, pos), n)]

(***************************************************************************)
(* Inputs                                                                  *)
(***************************************************************************)
\* the bit positions below N that arguments are drawn from
InputPos(n) == {p \in 0 .. (n - 1) : p % ULL_BITS < MaxOff \/ p >= n - MaxTop}

\* the number of bits the storage of a BitSet<n> holds
StorageBits(n) == NUM_CHUNKS(n) * Inner_bits(n)

\* padding positions a raw constructor argument may set: the lowest one (N)
\* and the top bit of the last word
PadPos(n) == {p \in n .. (StorageBits(n) - 1) : p = n \/ p = StorageBits(n) - 1}

\* the storage whose 1 bits are at the logical positions B
StorageOf(B, n) ==
    [i \in Chunks(n) |-> {p % ULL_BITS : p \in {q \in B : q \div ULL_BITS = i}}]

RawStorages(n) == {StorageOf(B, n) : B \in SUBSET (InputPos(n) \cup PadPos(n))}

\* no bit of s at a position >= n, i.e. the constructor's precondition and the
\* canonical form
Canonical(s, n) == s[NUM_CHUNKS(n) - 1] \subseteq 0 .. ((n - 1) % ULL_BITS)

Op(name, pos, value) == [op |-> name, pos |-> pos, value |-> value]

(***************************************************************************)
(* The state machine                                                       *)
(***************************************************************************)
Init ==
    /\ N \in Widths
    /\ debug \in BOOLEAN
    /\ \/ /\ m_storage = BitSet_default(N)
          /\ last = Op("BitSet()", 0, FALSE)
          /\ aborted = FALSE
       \/ /\ m_storage \in RawStorages(N)
          /\ last = Op("BitSet(storage)", 0, FALSE)
          /\ aborted = (debug /\ ~BitSet_assert(m_storage, N))
    /\ start_canonical = Canonical(m_storage, N)
    /\ prev_op = "none"
    /\ before = m_storage

\* the history variables after the operation `name`
Record(name, pos, value) ==
    /\ before' = m_storage
    /\ prev_op' = last.op
    /\ last' = Op(name, pos, value)
    /\ UNCHANGED <<N, debug, aborted, start_canonical>>

Set ==
    /\ ~aborted
    /\ m_storage' = set(m_storage, N)
    /\ Record("set()", 0, FALSE)

SetPos ==
    /\ ~aborted
    /\ \E pos \in InputPos(N), value \in BOOLEAN :
           /\ m_storage' = set_pos(m_storage, N, pos, value)
           /\ Record("set(pos,value)", pos, value)

Flip ==
    /\ ~aborted
    /\ m_storage' = flip(m_storage, N)
    /\ Record("flip()", 0, FALSE)

Reset ==
    /\ ~aborted
    /\ m_storage' = reset(m_storage, N)
    /\ Record("reset()", 0, FALSE)

ResetPos ==
    /\ ~aborted
    /\ \E pos \in InputPos(N) :
           /\ m_storage' = reset_pos(m_storage, N, pos)
           /\ Record("reset(pos)", pos, FALSE)

Next == Set \/ SetPos \/ Flip \/ Reset \/ ResetPos

Spec == Init /\ [][Next]_vars

(***************************************************************************)
(* What the claims speak of                                                *)
(***************************************************************************)
\* the bit of s at logical index pos
BitAt(s, pos) == (pos % ULL_BITS) \in s[pos \div ULL_BITS]

\* the logical indices below n whose bit is 1
OnesOf(s, n) == {p \in 0 .. (n - 1) : BitAt(s, p)}

\* the logical indices below n whose bit is 0
ZerosOf(s, n) == (0 .. (n - 1)) \ OnesOf(s, n)

\* the lowest element of S, or n when S is empty
LowestOr(S, n) == IF S = {} THEN n ELSE MinOf(S)

\* C1: started from a default-constructed container or from raw storage with no
\* bit at a position >= N, after any sequence of set(), set(pos, value), flip(),
\* reset() and reset(pos) with pos < N, every padding bit of the final word is 0.
C1_CanonicalForm == start_canonical => Canonical(m_storage, N)

C1_Witness ==
    /\ start_canonical /\ ~aborted
    /\ N = 70
    /\ last.op = "flip()" /\ prev_op = "set(pos,value)"
    /\ m_storage[1] # {}

\* C2: in every container state and for every pos < N, test(pos) and
\* operator[](pos) are true exactly when the bit at logical index pos is 1.
C2_TestReturnsBit ==
    ~aborted =>
        \A pos \in 0 .. (N - 1) :
            /\ test(m_storage, N, pos) = BitAt(m_storage, pos)
            /\ operator_index(m_storage, N, pos) = BitAt(m_storage, pos)

\* C3: in every canonical container state first_one() is the lowest index below
\* N whose bit is 1, and N when there is none; N on an all-zero container and 0
\* on an all-one container.
C3_FirstOne ==
    (~aborted /\ Canonical(m_storage, N)) =>
        /\ first_one(m_storage, N) = LowestOr(OnesOf(m_storage, N), N)
        /\ OnesOf(m_storage, N) = {} => first_one(m_storage, N) = N
        /\ ZerosOf(m_storage, N) = {} => first_one(m_storage, N) = 0

C3_Witness ==
    /\ ~aborted /\ Canonical(m_storage, N)
    /\ N = 129
    /\ last.op = "reset(pos)"
    /\ first_one(m_storage, N) = 128

\* C4: in every canonical container state first_zero() is the lowest index below
\* N whose bit is 0, and exactly N when every bit below N is 1; 0 on an all-zero
\* container.
C4_FirstZero ==
    (~aborted /\ Canonical(m_storage, N)) =>
        /\ first_zero(m_storage, N) = LowestOr(ZerosOf(m_storage, N), N)
        /\ ZerosOf(m_storage, N) = {} => first_zero(m_storage, N) = N
        /\ OnesOf(m_storage, N) = {} => first_zero(m_storage, N) = 0

C4_Witness ==
    /\ ~aborted /\ Canonical(m_storage, N)
    /\ N = 70
    /\ last.op = "set(pos,value)" /\ last.value
    /\ first_zero(m_storage, N) = 68

\* C5: in every canonical container state all() is true iff every bit below N
\* is 1; it is true right after set() and false on a default-constructed
\* container.
C5_All ==
    ~aborted =>
        /\ Canonical(m_storage, N) =>
               (all(m_storage, N) <=> OnesOf(m_storage, N) = 0 .. (N - 1))
        /\ last.op = "set()" => all(m_storage, N)
        /\ last.op = "BitSet()" => ~all(m_storage, N)

C5_Witness ==
    /\ ~aborted
    /\ N = 70
    /\ last.op = "set(pos,value)" /\ last.value /\ before # m_storage
    /\ all(m_storage, N)

\* C6: after reset() then set(pos) with pos < N, test(pos) is true, count() is 1
\* and test(q) is false for every other index q < N.
C6_ResetThenSet ==
    (~aborted /\ prev_op = "reset()" /\ last.op = "set(pos,value)" /\ last.value) =>
        /\ test(m_storage, N, last.pos)
        /\ count(m_storage, N) = 1
        /\ \A q \in (0 .. (N - 1)) \ {last.pos} : ~test(m_storage, N, q)

\* C7: in a debug build the raw-storage constructor's assertion fails whenever
\* the argument has a bit at a logical position >= N, and passes whenever all
\* its set bits are at positions < N.
C7_AssertIffPrecondition ==
    (debug /\ last.op = "BitSet(storage)") =>
        (aborted <=> ~Canonical(m_storage, N))

\* C8: to_string() has exactly N characters, each "0" or "1", and for every
\* pos < N its character at (0-based) position N-1-pos is "1" iff the bit at
\* logical index pos is 1.
C8_ToString ==
    ~aborted =>
        LET str == to_string(m_storage, N)
        IN  /\ Len(str) = N
            /\ \A k \in 1 .. N : str[k] \in {"0", "1"}
            /\ \A pos \in 0 .. (N - 1) :
                   (str[(N - 1 - pos) + 1] = "1") <=> BitAt(m_storage, pos)

\* C9: in every canonical container state count() is the number of indices
\* below N whose bit is 1; it is N right after set() and 0 right after reset().
C9_Count ==
    ~aborted =>
        /\ Canonical(m_storage, N) =>
               count(m_storage, N) = Cardinality(OnesOf(m_storage, N))
        /\ last.op = "set()" => count(m_storage, N) = N
        /\ last.op = "reset()" => count(m_storage, N) = 0

C9_Witness ==
    /\ ~aborted /\ Canonical(m_storage, N)
    /\ N = 129
    /\ last.op = "flip()"
    /\ count(m_storage, N) = 127

\* C10: from a canonical container state one flip() inverts exactly the bits
\* below N and leaves the padding bits 0, and a second flip() gives back the
\* storage as it was before the first, word for word.
C10_FlipSelfInverse ==
    [][(~aborted /\ last'.op = "flip()" /\ Canonical(m_storage, N)) =>
          /\ OnesOf(m_storage', N) = ZerosOf(m_storage, N)
          /\ Canonical(m_storage', N)
          /\ (last.op = "flip()" /\ Canonical(before, N)) => m_storage' = before
      ]_vars

C10_Witness ==
    /\ ~aborted /\ start_canonical
    /\ N = 70
    /\ last.op = "flip()" /\ prev_op = "flip()"
    /\ m_storage[1] # {} /\ m_storage[1] # LAST_MASK(N)

=============================================================================
